---- MODULE Spec2Model ----
(***************************************************************************)
(* Model of main.py: a FastAPI handler that geocodes a city name, fetches  *)
(* a forecast and derives the context (view model) of one HTML page.       *)
(*                                                                         *)
(* Encoding of Python values:                                              *)
(*   - a float temperature is an integer number of tenths of a degree      *)
(*     (5.0 is 50, 2.5 is 25), so that "<= 5" and round() keep their       *)
(*     boundary and tie cases;                                             *)
(*   - a value that may be None is a sequence: <<>> is None, <<x>> is x;   *)
(*   - a dict is a function whose DOMAIN is the set of keys present;       *)
(*   - a str that the code parses (a date) is a sequence of characters;    *)
(*   - an f-string is the sequence of its parts.                           *)
(***************************************************************************)
EXTENDS Integers, Sequences, FiniteSets, TLC

VARIABLES
    pc,          \* position of the coroutine home(): idle, await_geocode, await_weather, done
    query_city,  \* the parameter city of home()
    loc,         \* the local loc of home(): None, or Some(dict) once geocode_city returned one
    geoResp,     \* what the awaited geocoding client.get produced (NoResp before it does)
    wxResp,      \* what the awaited forecast client.get produced (NoResp before it does)
    geoCalls,    \* outbound geocoding calls issued by this request
    wxCalls,     \* outbound forecast calls issued by this request
    wxArgs,      \* the (latitude, longitude) parameters of the forecast calls, in order
    view,        \* the contexts handed to templates.TemplateResponse by this request, in order
    now,         \* the date datetime.utcnow() reads
    call,        \* unit harness: the function called and its arguments
    ret          \* unit harness: the value it returned

vars == <<pc, query_city, loc, geoResp, wxResp, geoCalls, wxCalls, wxArgs, view, now, call, ret>>

----------------------------------------------------------------------------
(* Python helpers *)

None == <<>>

Some(x) == <<x>>

\* dict.get(key, default)
Get(d, key, default) == IF key \in DOMAIN d THEN d[key] ELSE default

Abs(x) == IF x < 0 THEN -x ELSE x

\* floor division of a possibly negative integer
FloorDiv(a, b) == IF a >= 0 THEN a \div b ELSE -((-a + b - 1) \div b)

\* int(x) in place of round(x): the fraction dropped
PyRound_truncating(t) == IF t >= 0 THEN t \div 10 ELSE -((-t) \div 10)

\* round(x) of a float given in tenths: nearest integer, a tie going to the even one
PyRound(t) ==
    LET lo == FloorDiv(t, 10)
        r  == t - 10 * lo
    IN  IF r < 5 THEN lo
        ELSE IF r > 5 THEN lo + 1
        ELSE IF lo % 2 = 0 THEN lo ELSE lo + 1

----------------------------------------------------------------------------
(* main.py:17 *)
JP_DOW == <<"getsu", "ka", "sui", "moku", "kin", "do", "nichi">>

\* the thunder codes 95, 96, 99 left to the default branch
icon_file_from_code_thunder_default(code) ==
    IF code \in {0, 1, 2} THEN "sun.svg"
    ELSE IF code \in {51, 53, 55, 56, 57, 61, 63, 65, 66, 67, 80, 81, 82} THEN "rain.svg"
    ELSE "cloud.svg"

(* main.py:20-33 *)
icon_file_from_code(code) ==
    IF code \in {0} THEN "sun.svg"
    ELSE IF code \in {1, 2} THEN "sun.svg"
    ELSE IF code \in {3, 45, 48} THEN "cloud.svg"
    ELSE IF code \in {51, 53, 55, 56, 57, 61, 63, 65, 66, 67, 80, 81, 82} THEN "rain.svg"
    ELSE IF code \in {71, 73, 75, 77, 85, 86} THEN "cloud.svg"
    ELSE IF code \in {95, 96, 99} THEN "rain.svg"
    ELSE "cloud.svg"

(* main.py:35-43; the names are the romanised labels taiyou, ame, kumo *)
cute_icon(code) ==
    LET file == icon_file_from_code(code)
        name == IF file = "sun.svg" THEN "taiyou"
                ELSE IF file = "rain.svg" THEN "ame"
                ELSE "kumo"
    IN  [file |-> file, name |-> name]

(* main.py:54 *)
rain_codes == {51, 53, 55, 56, 57, 61, 63, 65, 66, 67, 80, 81, 82, 95, 96, 99}

\* "< 5" in place of "<= 5"
choose_character_strict(weathercode, temp_c) ==
    IF weathercode \in rain_codes THEN "character_rainy.png"
    ELSE IF temp_c # None /\ temp_c[1] < 50 THEN "character_cold.png"
    ELSE "character_sunny.png"

(* main.py:46-59; temp_c is a float in tenths, or None *)
choose_character(weathercode, temp_c) ==
    IF weathercode \in rain_codes THEN "character_rainy.png"
    ELSE IF temp_c # None /\ temp_c[1] <= 50 THEN "character_cold.png"
    ELSE "character_sunny.png"

----------------------------------------------------------------------------
(* datetime.fromisoformat and datetime.weekday, as called at main.py:102,107 *)

DigitChars == <<"0", "1", "2", "3", "4", "5", "6", "7", "8", "9">>

IsDigit(c) == \E i \in 1..10 : DigitChars[i] = c

DigitVal(c) == (CHOOSE i \in 1..10 : DigitChars[i] = c) - 1

\* int() of the digit characters s[a..b]
RECURSIVE ParseInt(_, _, _)
ParseInt(s, a, b) == IF b < a THEN 0 ELSE 10 * ParseInt(s, a, b - 1) + DigitVal(s[b])

IsLeap(y) == y % 4 = 0 /\ (y % 100 # 0 \/ y % 400 = 0)

DaysInMonth(y, m) ==
    IF m = 2 THEN (IF IsLeap(y) THEN 29 ELSE 28)
    ELSE IF m \in {4, 6, 9, 11} THEN 30
    ELSE 31

\* fromisoformat of a date-only string YYYY-MM-DD (the form of the forecast
\* service's daily "time"): Some(date), or None where Python raises ValueError
fromisoformat(s) ==
    IF Len(s) # 10 THEN None
    ELSE IF s[5] # "-" \/ s[8] # "-" THEN None
    ELSE IF \E i \in {1, 2, 3, 4, 6, 7, 9, 10} : ~IsDigit(s[i]) THEN None
    ELSE LET y == ParseInt(s, 1, 4)
             m == ParseInt(s, 6, 7)
             d == ParseInt(s, 9, 10)
         IN  IF y < 1 \/ m < 1 \/ m > 12 \/ d < 1 THEN None
             ELSE IF d > DaysInMonth(y, m) THEN None
             ELSE Some([year |-> y, month |-> m, day |-> d])

RECURSIVE DaysBeforeMonth(_, _)
DaysBeforeMonth(y, m) ==
    IF m = 1 THEN 0 ELSE DaysBeforeMonth(y, m - 1) + DaysInMonth(y, m - 1)

\* date.toordinal(): 1 is 0001-01-01, a Monday
toordinal(dt) ==
    LET y1 == dt.year - 1
    IN  y1 * 365 + (y1 \div 4) - (y1 \div 100) + (y1 \div 400)
        + DaysBeforeMonth(dt.year, dt.month) + dt.day

\* Monday is 0
weekday(dt) == (toordinal(dt) + 6) % 7

(* main.py:96-111: the entry appended for times[i] *)
DailyEntry(daily, utcnow, i) ==
    LET times  == Get(daily, "time", <<>>)
        tmaxs  == Get(daily, "temperature_2m_max", <<>>)
        tmins  == Get(daily, "temperature_2m_min", <<>>)
        wcodes == Get(daily, "weathercode", <<>>)
        parsed == fromisoformat(times[i])
        dt     == IF parsed = None THEN utcnow ELSE parsed[1]
    IN  [date |-> times[i],
         dow  |-> JP_DOW[weekday(dt) + 1],
         tmax |-> IF i <= Len(tmaxs) THEN Some(PyRound(tmaxs[i])) ELSE None,
         tmin |-> IF i <= Len(tmins) THEN Some(PyRound(tmins[i])) ELSE None,
         file |-> icon_file_from_code(IF i <= Len(wcodes) THEN wcodes[i] ELSE 3)]

\* the four arrays zipped: the loop ends at the shortest
build_daily_list_zipped(daily, utcnow) ==
    LET n == CHOOSE m \in 0..Len(Get(daily, "time", <<>>)) :
                /\ \A k \in {"time", "temperature_2m_max", "temperature_2m_min", "weathercode"} :
                        m <= Len(Get(daily, k, <<>>))
                /\ \E k \in {"time", "temperature_2m_max", "temperature_2m_min", "weathercode"} :
                        m = Len(Get(daily, k, <<>>))
    IN  [i \in 1..n |-> DailyEntry(daily, utcnow, i)]

\* "continue" in the except clause: a day whose date does not parse is left out
RECURSIVE build_daily_list_from(_, _, _)
build_daily_list_from(daily, utcnow, i) ==
    IF i > Len(Get(daily, "time", <<>>)) THEN <<>>
    ELSE IF fromisoformat(Get(daily, "time", <<>>)[i]) = None
    THEN build_daily_list_from(daily, utcnow, i + 1)
    ELSE <<DailyEntry(daily, utcnow, i)>> \o build_daily_list_from(daily, utcnow, i + 1)

build_daily_list_skipping(daily, utcnow) == build_daily_list_from(daily, utcnow, 1)

(* main.py:94-112; utcnow is the date datetime.utcnow() returns *)
build_daily_list(daily, utcnow) ==
    [i \in 1..Len(Get(daily, "time", <<>>)) |-> DailyEntry(daily, utcnow, i)]

----------------------------------------------------------------------------
(* Inputs *)

\* longest upstream daily array given to build_daily_list in isolation
MaxLen == 2

\* weather codes given to the classifier and the mascot selector: MinCode..MaxCode
MaxCode == 101

MinCode == 0 - 3

Codes == MinCode..MaxCode

\* temperatures in tenths: either side of the 5.0 boundary, zero, below zero
Temps == {0 - 30, 0, 40, 49, 50, 51, 200}

\* date strings: a Monday, a leap day (Thursday), no such calendar day, not a date
DateMonday == <<"2", "0", "2", "4", "-", "0", "3", "-", "0", "4">>

DateLeapDay == <<"2", "0", "2", "4", "-", "0", "2", "-", "2", "9">>

DateNoSuchDay == <<"2", "0", "2", "3", "-", "0", "2", "-", "2", "9">>

DateJunk == <<"n", "/", "a">>

DateStrings == {DateMonday, DateLeapDay, DateNoSuchDay, DateJunk}

\* the dates utcnow() may read: a Sunday and a Wednesday
NowDates == {[year |-> 2026, month |-> 11, day |-> 1], [year |-> 2025, month |-> 12, day |-> 31]}

\* sequences over S of length at most n
SeqsUpTo(S, n) == UNION {[1..k -> S] : k \in 0..n}

\* the dict with key k bound to each value of V, and the dict without it
Opt(k, V) == {[x \in {k} |-> v] : v \in V} \cup {[x \in {} |-> None]}

\* the union of two dicts with disjoint keys
Merge(d, e) == [k \in DOMAIN d \cup DOMAIN e |-> IF k \in DOMAIN d THEN d[k] ELSE e[k]]

\* the "daily" object of the given arrays, each present or not
Daily(time, highs, lows, codes) == Merge(Merge(time, highs), Merge(lows, codes))

----------------------------------------------------------------------------
(* Unit harness: one call of one pure function; Init draws the arguments,  *)
(* the action applies the function to them                                  *)

NoResp == [kind |-> "none"]

HandlerIdle ==
    /\ pc = "idle"
    /\ query_city = ""
    /\ loc = <<>>
    /\ geoResp = NoResp
    /\ wxResp = NoResp
    /\ geoCalls = 0
    /\ wxCalls = 0
    /\ wxArgs = <<>>
    /\ view = <<>>

HandlerVars == <<pc, query_city, loc, geoResp, wxResp, geoCalls, wxCalls, wxArgs, view>>

UnitInit ==
    /\ HandlerIdle
    /\ now \in NowDates
    /\ ret = <<>>
    /\ \/ \E code \in Codes :
            call = [fn |-> "cute_icon", returned |-> FALSE, code |-> code]
       \/ \E code \in Codes, temp \in Temps :
            call = [fn |-> "choose_character", returned |-> FALSE, code |-> code, temp |-> temp]
       \/ \E time \in Opt("time", SeqsUpTo(DateStrings, MaxLen)),
             highs \in Opt("temperature_2m_max", SeqsUpTo({25, 27}, MaxLen)),
             lows \in Opt("temperature_2m_min", SeqsUpTo({0 - 27}, MaxLen)),
             codes \in Opt("weathercode", SeqsUpTo({1, 61}, MaxLen)) :
            call = [fn |-> "build_daily_list", returned |-> FALSE,
                    daily |-> Daily(time, highs, lows, codes)]

CallCuteIcon ==
    /\ call.fn = "cute_icon" /\ ~call.returned
    /\ ret' = cute_icon(call.code)
    /\ call' = [call EXCEPT !.returned = TRUE]
    /\ UNCHANGED <<HandlerVars, now>>

CallChooseCharacter ==
    /\ call.fn = "choose_character" /\ ~call.returned
    /\ ret' = choose_character(call.code, Some(call.temp))
    /\ call' = [call EXCEPT !.returned = TRUE]
    /\ UNCHANGED <<HandlerVars, now>>

CallBuildDailyList ==
    /\ call.fn = "build_daily_list" /\ ~call.returned
    /\ ret' = build_daily_list(call.daily, now)
    /\ call' = [call EXCEPT !.returned = TRUE]
    /\ UNCHANGED <<HandlerVars, now>>

UnitNext == CallCuteIcon \/ CallChooseCharacter \/ CallBuildDailyList

UnitSpec == UnitInit /\ [][UnitNext]_vars

----------------------------------------------------------------------------
(* The outbound calls.  A response is what "await client.get" followed by  *)
(* raise_for_status() and r.json() gives the caller: an exception raised,  *)
(* or a body, which is JSON (Some(data)) or not (None).                    *)

Raise(type, detail) == [kind |-> "raise", exc |-> [type |-> type, detail |-> detail]]

Return(value) == [kind |-> "return", value |-> value]

Body(json) == [kind |-> "body", json |-> json]

\* "except httpx.NetworkError": the timeouts are no longer caught by the first clause
IsHTTPError_network_only(exc) == exc.type \in {"ConnectError", "HTTPStatusError"}

\* isinstance(e, httpx.HTTPError): the transport, timeout and status errors
IsHTTPError(exc) == exc.type \in {"ConnectError", "ReadTimeout", "ConnectTimeout", "HTTPStatusError"}

(* main.py:62-77 *)
geocode_city(resp) ==
    IF resp.kind = "raise" THEN resp
    ELSE IF resp.json = None THEN Raise("JSONDecodeError", "Expecting value")
    ELSE LET data == resp.json[1]
         IN  IF Get(data, "results", <<>>) = <<>> THEN Return(None)
             ELSE LET res == data["results"][1]
                      missing == {"name", "latitude", "longitude"} \ DOMAIN res
                  IN  IF "name" \in missing THEN Raise("KeyError", "name")
                      ELSE IF "latitude" \in missing THEN Raise("KeyError", "latitude")
                      ELSE IF "longitude" \in missing THEN Raise("KeyError", "longitude")
                      ELSE Return(Some([name    |-> res["name"],
                                        lat     |-> res["latitude"],
                                        lon     |-> res["longitude"],
                                        country |-> Get(res, "country", None)]))

(* main.py:79-92 *)
get_weather(resp) ==
    IF resp.kind = "raise" THEN resp
    ELSE IF resp.json = None THEN Raise("JSONDecodeError", "Expecting value")
    ELSE Return(resp.json[1])

----------------------------------------------------------------------------
(* home(), main.py:115-163 *)

\* the not-found context also given the city
NotFoundView_with_city(city) ==
    [request |-> "request", city |-> city,
     error |-> <<"basho [", city, "] ga mitsukarimasendeshita.">>]

\* main.py:123-126
NotFoundView(city) ==
    [request |-> "request", error |-> <<"basho [", city, "] ga mitsukarimasendeshita.">>]

\* "except Exception" placed first: every failure takes the generic clause
ExceptView_generic_first(exc) ==
    [request |-> "request", error |-> <<"souteigai no error: ", exc.detail>>]

\* main.py:154-163: the two except clauses, in order
ExceptView(exc) ==
    IF IsHTTPError(exc)
    THEN [request |-> "request", error |-> <<"API tsuushin de error: ", exc.detail>>]
    ELSE [request |-> "request", error |-> <<"souteigai no error: ", exc.detail>>]

\* no default: cw.get("temperature") gives None, which float() rejects
DefaultTemperature_none == None

\* main.py:137,144: the temperature used when current_weather has none
DefaultTemperature == Some(0)

\* longitude and latitude exchanged
ForecastParams_swapped(location) == <<location.lon, location.lat>>

\* main.py:128: the arguments of get_weather
ForecastParams(location) == <<location.lat, location.lon>>

\* main.py:129-152: from the forecast JSON w to the context, or the exception raised
Derive(city, location, w, utcnow) ==
    LET cw         == Get(w, "current_weather", [x \in {} |-> None])
        daily_list == build_daily_list(Get(w, "daily", [x \in {} |-> None]), utcnow)
        code       == Get(cw, "weathercode", Some(3))
        temp       == Get(cw, "temperature", DefaultTemperature)
    IN  IF code = None
        THEN Raise("TypeError", "int() argument must be a string or a real number")
        ELSE IF temp = None
        THEN Raise("TypeError", "float() argument must be a string or a real number")
        ELSE Return([request    |-> "request",
                     city       |-> location.name,
                     country    |-> location.country,
                     temp       |-> PyRound(temp[1]),
                     windspeed  |-> Get(cw, "windspeed", Some(0)),
                     time       |-> Get(cw, "time", ""),
                     icon       |-> cute_icon(code[1]),
                     character  |-> choose_character(code[1], Some(temp[1])),
                     daily      |-> daily_list,
                     query_city |-> city])

\* a request arrives; home() runs to its first await, inside geocode_city
Request(city) ==
    /\ pc \in {"idle", "done"}
    /\ pc' = "await_geocode"
    /\ query_city' = city
    /\ loc' = <<>>
    /\ geoResp' = NoResp
    /\ wxResp' = NoResp
    /\ geoCalls' = 1
    /\ wxCalls' = 0
    /\ wxArgs' = <<>>
    /\ view' = <<>>
    /\ UNCHANGED <<now, call, ret>>

\* main.py:121-128: the geocoding call completes; home() runs to its next
\* await, inside get_weather, or to its return
GeocodeDone(resp) ==
    /\ pc = "await_geocode"
    /\ geoResp' = resp
    /\ LET r == geocode_city(resp)
       IN  IF r.kind = "raise"
           THEN /\ view' = Append(view, ExceptView(r.exc))
                /\ pc' = "done"
                /\ UNCHANGED <<loc, wxCalls, wxArgs>>
           ELSE IF r.value = None
           THEN /\ view' = Append(view, NotFoundView(query_city))
                /\ pc' = "done"
                /\ loc' = r.value
                /\ UNCHANGED <<wxCalls, wxArgs>>
           ELSE /\ loc' = r.value
                /\ wxCalls' = wxCalls + 1
                /\ wxArgs' = Append(wxArgs, ForecastParams(r.value[1]))
                /\ pc' = "await_weather"
                /\ UNCHANGED view
    /\ UNCHANGED <<query_city, wxResp, geoCalls, now, call, ret>>

\* main.py:128-163: the forecast call completes; home() runs to its return
WeatherDone(resp) ==
    /\ pc = "await_weather"
    /\ wxResp' = resp
    /\ LET r == get_weather(resp)
           d == IF r.kind = "raise" THEN r ELSE Derive(query_city, loc[1], r.value, now)
       IN  view' = Append(view, IF d.kind = "raise" THEN ExceptView(d.exc) ELSE d.value)
    /\ pc' = "done"
    /\ UNCHANGED <<query_city, loc, geoResp, geoCalls, wxCalls, wxArgs, now, call, ret>>

----------------------------------------------------------------------------
(* What the upstream services may answer *)

\* longest upstream daily array in a forecast response given to home()
MaxFeed == 2

Cities == {"Zurich", "Nonexistentville"}

TransportErrors ==
    {Raise("ConnectError", "All connection attempts failed"),
     Raise("ReadTimeout", "timed out"),
     Raise("HTTPStatusError", "Server error 500")}

GeoResults ==
    {[name |-> "Zuerich", latitude |-> 4737, longitude |-> 854, country |-> Some("Schweiz")],
     [name |-> "Null Island", latitude |-> 0, longitude |-> 10],
     [latitude |-> 4737, longitude |-> 854]}

GeoResponses ==
    TransportErrors
    \cup {Body(None), Body(Some([generationtime_ms |-> 1])), Body(Some([results |-> <<>>]))}
    \cup {Body(Some([results |-> <<res>>])) : res \in GeoResults}

\* current_weather: temperature and weathercode each missing, null or a number
CurrentWeathers ==
    {[x \in {} |-> None]}
    \cup {Merge(Merge(t, c), [windspeed |-> Some(72), time |-> "2024-03-04T12:00"]) :
            t \in Opt("temperature", {None, Some(50), Some(51)}),
            c \in Opt("weathercode", {None, Some(1), Some(61)})}

Init ==
    /\ HandlerIdle
    /\ now \in NowDates
    /\ call = [fn |-> "none"]
    /\ ret = <<>>

RequestArrives == \E city \in Cities : Request(city)

GeocodeReturns == \E resp \in GeoResponses : GeocodeDone(resp)

WeatherReturns ==
    /\ pc = "await_weather"
    /\ \/ \E resp \in TransportErrors \cup {Body(None)} : WeatherDone(resp)
       \/ \E cw \in Opt("current_weather", CurrentWeathers) : WeatherDone(Body(Some(cw)))
       \/ \E cw \in Opt("current_weather", CurrentWeathers),
             time \in Opt("time", SeqsUpTo({DateMonday, DateJunk}, MaxFeed)),
             highs \in Opt("temperature_2m_max", SeqsUpTo({27}, MaxFeed)),
             lows \in Opt("temperature_2m_min", SeqsUpTo({0 - 27}, MaxFeed)),
             codes \in Opt("weathercode", SeqsUpTo({61}, MaxFeed)) :
            WeatherDone(Body(Some(Merge(cw, [daily |-> Daily(time, highs, lows, codes)]))))

Next == RequestArrives \/ GeocodeReturns \/ WeatherReturns

Spec == Init /\ [][Next]_vars

\* the awaited call completes and home() runs on: by [][Next]_vars such a
\* step is a GeocodeReturns or a WeatherReturns step, and one is possible
\* whenever home() awaits
AwaitCompletes ==
    /\ pc \in {"await_geocode", "await_weather"}
    /\ pc' \in {"await_weather", "done"} \ {pc}

(* Every awaited call completes: each client is built with timeout=10
   (main.py:65,89), so a call returns, fails or times out. *)
FairSpec == Spec /\ WF_pc(AwaitCompletes)

----------------------------------------------------------------------------
(* The documented tables and the properties checked *)

SunTable == {0, 1, 2}

RainTable == {51, 53, 55, 56, 57, 61, 63, 65, 66, 67, 80, 81, 82, 95, 96, 99}

IconFiles == {"sun.svg", "cloud.svg", "rain.svg"}

Returned(fn) == call.fn = fn /\ call.returned

\* the arrays of the daily argument of a build_daily_list call, [] where missing
ArgTimes == Get(call.daily, "time", <<>>)

ArgHighs == Get(call.daily, "temperature_2m_max", <<>>)

ArgLows == Get(call.daily, "temperature_2m_min", <<>>)

ArgCodes == Get(call.daily, "weathercode", <<>>)

\* r is an integer nearest to the temperature t, given in tenths
Nearest(r, t) == Abs(10 * r - t) <= 5

\* the icon file of the documented table
TableFile(code) ==
    IF code \in SunTable THEN "sun.svg"
    ELSE IF code \in RainTable THEN "rain.svg"
    ELSE "cloud.svg"

\* C4: the classifier is total and follows the table: codes 0, 1, 2 give the
\* Sun icon, the listed rain and thunder codes the Rain icon, every other
\* integer the Cloud icon, and the label is the one paired with that icon.
C4_ClassifierMatchesTable ==
    Returned("cute_icon") =>
        ret = IF call.code \in SunTable THEN [file |-> "sun.svg", name |-> "taiyou"]
              ELSE IF call.code \in RainTable THEN [file |-> "rain.svg", name |-> "ame"]
              ELSE [file |-> "cloud.svg", name |-> "kumo"]

C4_Witness ==
    /\ Returned("cute_icon")
    /\ call.code = 95
    /\ ret = [file |-> "rain.svg", name |-> "ame"]

\* C5: the mascot is chosen by first match: a rain code gives Rainy whatever
\* the temperature; otherwise a temperature <= 5 (5 included) gives Cold;
\* otherwise Sunny.
C5_MascotFirstMatchWins ==
    Returned("choose_character") =>
        ret = IF call.code \in RainTable THEN "character_rainy.png"
              ELSE IF call.temp <= 50 THEN "character_cold.png"
              ELSE "character_sunny.png"

C5_Witness ==
    /\ Returned("choose_character")
    /\ call.code = 3
    /\ call.temp = 50
    /\ ret = "character_cold.png"

\* C6: build_daily_list gives one entry per element of the dates array, in
\* order: entry i carries dates[i] unchanged, the rounded tmax[i] and tmin[i]
\* where those arrays reach i and None where they do not, and the classifier's
\* icon for codes[i] where the codes reach i and the Cloud icon where not.
C6_DailyEntryPerDate ==
    Returned("build_daily_list") =>
        /\ Len(ret) = Len(ArgTimes)
        /\ \A i \in 1..Len(ArgTimes) :
            /\ ret[i].date = ArgTimes[i]
            /\ IF i <= Len(ArgHighs)
               THEN Len(ret[i].tmax) = 1 /\ Nearest(ret[i].tmax[1], ArgHighs[i])
               ELSE ret[i].tmax = None
            /\ IF i <= Len(ArgLows)
               THEN Len(ret[i].tmin) = 1 /\ Nearest(ret[i].tmin[1], ArgLows[i])
               ELSE ret[i].tmin = None
            /\ ret[i].file = IF i <= Len(ArgCodes) THEN TableFile(ArgCodes[i]) ELSE "cloud.svg"
            /\ ret[i].file \in IconFiles

C6_Witness ==
    /\ Returned("build_daily_list")
    /\ Len(ArgTimes) = 2 /\ Len(ArgHighs) = 1 /\ ArgHighs[1] = 27 /\ Len(ArgCodes) = 1
    /\ Len(ret) = 2
    /\ ret[1].tmax = Some(3)
    /\ ret[2].tmax = None /\ ret[2].file = "cloud.svg"

MinLen4(a, b, c, d) ==
    CHOOSE m \in {Len(a), Len(b), Len(c), Len(d)} :
        m <= Len(a) /\ m <= Len(b) /\ m <= Len(c) /\ m <= Len(d)

\* C7 as stated: the number of entries is the length of the shortest of the
\* date, max-temperature, min-temperature and weather-code arrays.
C7_CountIsShortestArray ==
    Returned("build_daily_list") => Len(ret) = MinLen4(ArgTimes, ArgHighs, ArgLows, ArgCodes)

\* C7 amended: the number of entries is the length of the date array, also
\* where a temperature or weather-code array is shorter or missing.
C7_CountIsDatesLength ==
    Returned("build_daily_list") =>
        /\ Len(ret) = Len(ArgTimes)
        /\ Len(ret) >= MinLen4(ArgTimes, ArgHighs, ArgLows, ArgCodes)

C7_Witness ==
    /\ Returned("build_daily_list")
    /\ Len(ArgTimes) = 2 /\ Len(ArgHighs) = 0 /\ Len(ArgLows) = 1 /\ Len(ArgCodes) = 0
    /\ Len(ret) = 2

----------------------------------------------------------------------------
(* home() *)

WeatherFields == {"city", "temp", "icon", "character", "daily"}

IsSuccessView(v) ==
    /\ WeatherFields \cup {"query_city"} \subseteq DOMAIN v
    /\ "error" \notin DOMAIN v

IsErrorView(v) ==
    /\ "error" \in DOMAIN v
    /\ Len(v["error"]) > 0
    /\ DOMAIN v \cap WeatherFields = {}

IsTransportFailure(resp) ==
    /\ resp.kind = "raise"
    /\ resp.exc.type \in {"ConnectError", "ReadTimeout", "HTTPStatusError"}

IsTimeout(resp) == resp.kind = "raise" /\ resp.exc.type = "ReadTimeout"

IsJson(resp) == resp.kind = "body" /\ resp.json # None

\* the geocoding answer has no match: "results" missing or empty
IsNoMatch(resp) == IsJson(resp) /\ Get(resp.json[1], "results", <<>>) = <<>>

\* the geocoding answer has a first match
HasMatch(resp) == IsJson(resp) /\ Get(resp.json[1], "results", <<>>) # <<>>

FirstMatch(resp) == resp.json[1]["results"][1]

\* a body the code cannot use: not JSON, or a first match without a required field
IsMalformedGeo(resp) ==
    \/ resp.kind = "body" /\ resp.json = None
    \/ HasMatch(resp) /\ ~({"name", "latitude", "longitude"} \subseteq DOMAIN FirstMatch(resp))

\* the current_weather object of a forecast answer, {} where missing
CurrentOf(resp) == Get(resp.json[1], "current_weather", [x \in {} |-> None])

\* a forecast body the code cannot use: not JSON, or a null where a number is needed
IsMalformedWx(resp) ==
    \/ resp.kind = "body" /\ resp.json = None
    \/ /\ IsJson(resp)
       /\ \E k \in {"temperature", "weathercode"} :
            k \in DOMAIN CurrentOf(resp) /\ CurrentOf(resp)[k] = None

\* C1: the context handed to the renderer is a success view (the weather
\* fields and the query string, no error) or an error view (an error and no
\* weather field), never both and never neither, whatever upstream answered.
C1_SuccessXorError ==
    /\ \A i \in 1..Len(view) :
        /\ IsSuccessView(view[i]) \/ IsErrorView(view[i])
        /\ ~(IsSuccessView(view[i]) /\ IsErrorView(view[i]))
        /\ "error" \in DOMAIN view[i] => DOMAIN view[i] \cap WeatherFields = {}
    /\ pc = "done" => Len(view) = 1

C1_Witness ==
    /\ pc = "done"
    /\ IsJson(wxResp)
    /\ IsMalformedWx(wxResp)
    /\ IsErrorView(view[1])

\* C2: each failure class has its own error view and none escapes home(): no
\* geocoding match gives the message naming the input city; a transport
\* failure of either call gives the transport-error message; any other
\* failure, a malformed payload included, gives the generic message.
C2_FailureClassToView ==
    pc = "done" =>
        /\ Len(view) = 1
        /\ IsNoMatch(geoResp) =>
            /\ IsErrorView(view[1])
            /\ view[1]["error"] = <<"basho [", query_city, "] ga mitsukarimasendeshita.">>
        /\ IsTransportFailure(geoResp) \/ IsTransportFailure(wxResp) =>
            /\ IsErrorView(view[1])
            /\ view[1]["error"][1] = "API tsuushin de error: "
        /\ IsMalformedGeo(geoResp) \/ IsMalformedWx(wxResp) =>
            /\ IsErrorView(view[1])
            /\ view[1]["error"][1] = "souteigai no error: "

C2_Witness ==
    /\ pc = "done"
    /\ IsTransportFailure(wxResp)
    /\ wxResp.exc.type = "HTTPStatusError"
    /\ view[1]["error"][1] = "API tsuushin de error: "

\* C3: the forecast call is issued only after geocoding returned a location
\* and with that location's latitude and longitude; a request issues at most
\* one call of each kind; with no match or a failed geocoding it issues no
\* forecast call.
C3_CallsOrderedOnce ==
    /\ geoCalls <= 1
    /\ wxCalls <= 1
    /\ Len(wxArgs) = wxCalls
    /\ pc = "await_weather" => wxCalls = 1
    /\ wxCalls = 1 =>
        /\ geoCalls = 1
        /\ HasMatch(geoResp)
        /\ wxArgs[1] = <<FirstMatch(geoResp)["latitude"], FirstMatch(geoResp)["longitude"]>>
    /\ pc = "done" /\ (geoResp.kind = "raise" \/ IsNoMatch(geoResp) \/ IsMalformedGeo(geoResp)) =>
        wxCalls = 0

C3_Witness ==
    /\ pc = "done"
    /\ wxCalls = 1
    /\ IsTransportFailure(wxResp)
    /\ wxArgs = <<<<4737, 854>>>>

\* C9: a date that is not a calendar date neither fails the request nor drops
\* or moves an entry: the entry is there with the date string as given, a
\* label of the 7-label table computed from the current date, and the
\* temperatures and icon it has with a parseable date in its place.
UnparseableDates == {DateNoSuchDay, DateJunk}

\* the label of the weekday of each date utcnow() may read
LabelOfNow == IF now = [year |-> 2026, month |-> 11, day |-> 1] THEN "nichi" ELSE "sui"

\* the "daily" object of a forecast answer, {} where missing
DailyOf(resp) == Get(resp.json[1], "daily", [x \in {} |-> None])

\* the daily object with a parseable date in place of times[i]
WithGoodDate(daily, i) == [daily EXCEPT !["time"][i] = DateMonday]

C9_BadDateKeepsEntry ==
    (pc = "done" /\ IsJson(wxResp) /\ ~IsMalformedWx(wxResp)) =>
        LET times == Get(DailyOf(wxResp), "time", <<>>)
        IN  /\ IsSuccessView(view[1])
            /\ Len(view[1]["daily"]) = Len(times)
            /\ \A i \in 1..Len(times) :
                /\ view[1]["daily"][i].date = times[i]
                /\ times[i] \in UnparseableDates =>
                    LET e    == view[1]["daily"][i]
                        good == build_daily_list(WithGoodDate(DailyOf(wxResp), i), now)[i]
                    IN  /\ e.dow \in {JP_DOW[k] : k \in 1..7}
                        /\ e.dow = LabelOfNow
                        /\ e.tmax = good.tmax
                        /\ e.tmin = good.tmin
                        /\ e.file = good.file

C9_Witness ==
    /\ pc = "done"
    /\ IsSuccessView(view[1])
    /\ Len(view[1]["daily"]) = 2
    /\ view[1]["daily"][1].date = DateJunk
    /\ view[1]["daily"][1].tmax = Some(3)
    /\ view[1]["daily"][2].date = DateMonday
    /\ view[1]["daily"][2].dow = "getsu"

\* C10: a current weather without a temperature is shown as temperature 0 in
\* the success view, with the Cold mascot unless the weather code is a rain
\* code (then Rainy); the mascot is never Sunny.
HasNoTemperature(resp) == IsJson(resp) /\ "temperature" \notin DOMAIN CurrentOf(resp)

CurrentCode(resp) == Get(CurrentOf(resp), "weathercode", Some(3))

C8_RequestTerminates ==
    /\ (pc \in {"await_geocode", "await_weather"}) ~> (pc = "done" /\ Len(view) = 1)
    /\ [](pc # "done" => Len(view) = 0)
    /\ []((pc = "done" /\ (IsTimeout(geoResp) \/ IsTimeout(wxResp))) =>
            /\ IsErrorView(view[1])
            /\ view[1]["error"][1] = "API tsuushin de error: ")

C8_Witness ==
    /\ pc = "done"
    /\ IsTimeout(wxResp)
    /\ Len(view) = 1
    /\ view[1]["error"][1] = "API tsuushin de error: "

====
